---------------------------- MODULE Spec2Model ----------------------------
(***************************************************************************)
(* Model of 3002model.py: the LTP simulation of one synapse under three    *)
(* conditions.  The program computes in IEEE-754 binary64 (Python floats   *)
(* and numpy float64 arrays); the model computes the same values bit for   *)
(* bit.  A float is a record [s, e, m] standing for (-1)^s * m * 2^e, with *)
(* m a natural number kept as little-endian limbs, because the 53-bit      *)
(* significand and the 106-bit products exceed the integers of the model   *)
(* checker.  Infinities and NaN are outside the model: every input set     *)
(* below keeps all values finite.                                          *)
(***************************************************************************)
EXTENDS Integers, Sequences, FiniteSets, TLC

(***************************************************************************)
(* Natural numbers of any size: little-endian sequences of limbs below     *)
(* Base, without high zero limbs; <<>> is zero.                            *)
(***************************************************************************)
LimbBits == 14
Base == 2^LimbBits

Max(a, b) == IF a >= b THEN a ELSE b
Min(a, b) == IF a <= b THEN a ELSE b

RECURSIVE Strip(_)
Strip(a) ==
    IF a = <<>> THEN <<>>
    ELSE IF a[Len(a)] = 0 THEN Strip(SubSeq(a, 1, Len(a) - 1))
    ELSE a

RECURSIVE Carry(_, _, _)
Carry(a, c, acc) ==
    IF a = <<>>
    THEN IF c = 0 THEN acc ELSE Carry(<<>>, c \div Base, Append(acc, c % Base))
    ELSE LET v == Head(a) + c
         IN  Carry(Tail(a), v \div Base, Append(acc, v % Base))

NatNorm(a) == Strip(Carry(a, 0, <<>>))

Limb(a, i) == IF i >= 1 /\ i <= Len(a) THEN a[i] ELSE 0

NatFromInt(n) == NatNorm(<<n>>)

RECURSIVE NatToInt(_)
NatToInt(a) == IF a = <<>> THEN 0 ELSE Head(a) + Base * NatToInt(Tail(a))

NatAdd(a, b) == NatNorm([i \in 1..Max(Len(a), Len(b)) |-> Limb(a, i) + Limb(b, i)])

\* a - b, for a >= b
NatSub(a, b) == NatNorm([i \in 1..Max(Len(a), Len(b)) |-> Limb(a, i) - Limb(b, i)])

RECURSIVE ColSum(_, _, _, _)
ColSum(a, b, k, i) ==
    IF i > Len(a) THEN 0
    ELSE a[i] * Limb(b, k + 1 - i) + ColSum(a, b, k, i + 1)

\* schoolbook product of two significands (at most 4 limbs each)
NatMul(a, b) ==
    IF a = <<>> \/ b = <<>> THEN <<>>
    ELSE NatNorm([k \in 1..(Len(a) + Len(b) - 1) |-> ColSum(a, b, k, 1)])

RECURSIVE CmpFrom(_, _, _)
CmpFrom(a, b, i) ==
    IF i = 0 THEN 0
    ELSE IF a[i] > b[i] THEN 1
    ELSE IF a[i] < b[i] THEN -1
    ELSE CmpFrom(a, b, i - 1)

\* -1, 0, 1 as a < b, a = b, a > b
NatCmp(a, b) ==
    IF Len(a) > Len(b) THEN 1
    ELSE IF Len(a) < Len(b) THEN -1
    ELSE CmpFrom(a, b, Len(a))

\* a * 2^k
NatShl(a, k) ==
    IF a = <<>> THEN <<>>
    ELSE LET q == k \div LimbBits
             r == k % LimbBits
         IN  Strip([i \in 1..(Len(a) + q + 1) |->
                      ((Limb(a, i - q) * 2^r) % Base)
                      + (Limb(a, i - q - 1) \div 2^(LimbBits - r))])

\* floor(a / 2^k)
NatShr(a, k) ==
    LET q == k \div LimbBits
        r == k % LimbBits
    IN  IF Len(a) <= q THEN <<>>
        ELSE Strip([i \in 1..(Len(a) - q) |->
                      (Limb(a, i + q) \div 2^r)
                      + ((Limb(a, i + q + 1) % 2^r) * 2^(LimbBits - r))])

RECURSIVE BitLenSmall(_)
BitLenSmall(x) == IF x = 0 THEN 0 ELSE 1 + BitLenSmall(x \div 2)

NatBitLen(a) ==
    IF a = <<>> THEN 0 ELSE LimbBits * (Len(a) - 1) + BitLenSmall(a[Len(a)])

NatBit(a, i) == (Limb(a, (i \div LimbBits) + 1) \div 2^(i % LimbBits)) % 2

NatIsOdd(a) == NatBit(a, 0) = 1

\* Long division of n by d (d # 0), one bit of n at a time from the top.  The
\* state is <<quotient, remainder>>; the test on Len(st) has the state
\* evaluated at every step instead of once at the end.
BitStep(st, bit, d) ==
    LET r2 == NatAdd(NatShl(st[2], 1), NatFromInt(bit))
        ge == NatCmp(r2, d) >= 0
    IN  <<NatAdd(NatShl(st[1], 1), NatFromInt(IF ge THEN 1 ELSE 0)),
          IF ge THEN NatSub(r2, d) ELSE r2>>

RECURSIVE LimbSteps(_, _, _, _)
LimbSteps(st, x, d, k) ==
    IF Len(st) # 2 \/ k = 0 THEN st
    ELSE LimbSteps(BitStep(st, (x \div 2^(k - 1)) % 2, d), x, d, k - 1)

RECURSIVE DivLimbs(_, _, _, _)
DivLimbs(st, n, d, j) ==
    IF Len(st) # 2 \/ j = 0 THEN st
    ELSE DivLimbs(LimbSteps(st, n[j], d, LimbBits), n, d, j - 1)

NatDivMod(n, d) == DivLimbs(<<(<<>>), (<<>>)>>, n, d, Len(n))

(***************************************************************************)
(* IEEE-754 binary64, round to nearest, ties to even.  A float is          *)
(* [s |-> sign, e |-> exponent, m |-> significand] with value              *)
(* (-1)^s * m * 2^e.  Canonical form: m = <<>> and e = 0 for a zero;       *)
(* 2^52 <= m < 2^53 for a normal number; e = MinExp and m < 2^52 for a     *)
(* subnormal one.                                                          *)
(***************************************************************************)
MantBits == 53
MinExp == -1074

FZero(s) == [s |-> s, e |-> 0, m |-> <<>>]

\* the float nearest to (-1)^s * m * 2^e
Round(s, e, m) ==
    IF m = <<>> THEN FZero(s)
    ELSE LET k == Max(NatBitLen(m) - MantBits, MinExp - e)
         IN  IF k <= 0 THEN [s |-> s, e |-> e + k, m |-> NatShl(m, -k)]
             ELSE LET q    == NatShr(m, k)
                      r    == NatSub(m, NatShl(q, k))
                      c    == NatCmp(r, NatShl(<<1>>, k - 1))
                      up   == c > 0 \/ (c = 0 /\ NatIsOdd(q))
                      q2   == IF up THEN NatAdd(q, <<1>>) ELSE q
                  IN  IF q2 = <<>> THEN FZero(s)
                      ELSE IF NatBitLen(q2) > MantBits
                      THEN [s |-> s, e |-> e + k + 1, m |-> NatShr(q2, 1)]
                      ELSE [s |-> s, e |-> e + k, m |-> q2]

FIsZero(a) == a.m = <<>>

\* a Python int converted to float (exact below 2^53)
FromInt(n) == IF n >= 0 THEN Round(0, 0, NatFromInt(n)) ELSE Round(1, 0, NatFromInt(-n))

FNeg(a) == [a EXCEPT !.s = 1 - a.s]

FMul(a, b) == Round((a.s + b.s) % 2, a.e + b.e, NatMul(a.m, b.m))

\* x, or a sticky bit in its place when x lies below a quarter of the last
\* place of the other operand (whose exponent is e): the sum rounds the same
Sticky(x, e) ==
    IF x.e + NatBitLen(x.m) < e - 2 THEN [s |-> x.s, e |-> e - 3, m |-> <<1>>] ELSE x

FAdd(a, b) ==
    IF FIsZero(a) /\ FIsZero(b) THEN FZero(IF a.s = 1 /\ b.s = 1 THEN 1 ELSE 0)
    ELSE IF FIsZero(a) THEN b
    ELSE IF FIsZero(b) THEN a
    ELSE LET x  == Sticky(a, b.e)
             y  == Sticky(b, a.e)
             e  == Min(x.e, y.e)
             ma == NatShl(x.m, x.e - e)
             mb == NatShl(y.m, y.e - e)
             c  == NatCmp(ma, mb)
         IN  IF a.s = b.s THEN Round(a.s, e, NatAdd(ma, mb))
             ELSE IF c = 0 THEN FZero(0)
             ELSE IF c > 0 THEN Round(a.s, e, NatSub(ma, mb))
             ELSE Round(b.s, e, NatSub(mb, ma))

FSub(a, b) == FAdd(a, FNeg(b))

\* a / b for b # 0: the quotient to 56 or 57 bits and a sticky bit, then rounded
FDiv(a, b) ==
    IF FIsZero(a) THEN FZero((a.s + b.s) % 2)
    ELSE LET sh == NatBitLen(b.m) - NatBitLen(a.m) + MantBits + 3
             qr == NatDivMod(NatShl(a.m, sh), b.m)
             m2 == NatAdd(NatShl(qr[1], 1), IF qr[2] = <<>> THEN <<>> ELSE <<1>>)
         IN  Round((a.s + b.s) % 2, a.e - b.e - sh - 1, m2)

\* -1, 0, 1 as a < b, a = b, a > b
FCmpMag(a, b) ==
    IF FIsZero(a) /\ FIsZero(b) THEN 0
    ELSE IF FIsZero(a) THEN -1
    ELSE IF FIsZero(b) THEN 1
    ELSE IF a.e > b.e THEN 1
    ELSE IF a.e < b.e THEN -1
    ELSE NatCmp(a.m, b.m)

FCmp(a, b) ==
    IF FIsZero(a) /\ FIsZero(b) THEN 0
    ELSE IF a.s = 0 /\ b.s = 0 THEN FCmpMag(a, b)
    ELSE IF a.s = 1 /\ b.s = 1 THEN FCmpMag(b, a)
    ELSE IF a.s = 0 THEN 1
    ELSE -1

FLe(a, b) == FCmp(a, b) <= 0
FLt(a, b) == FCmp(a, b) < 0
FEq(a, b) == FCmp(a, b) = 0

\* ceil(a) as an integer, for |a| below 2^31
FCeil(a) ==
    IF FIsZero(a) THEN 0
    ELSE IF a.e >= 0 THEN (IF a.s = 0 THEN 1 ELSE -1) * NatToInt(NatShl(a.m, a.e))
    ELSE LET q     == NatShr(a.m, -a.e)
             exact == NatShl(q, -a.e) = a.m
         IN  IF a.s = 0 THEN NatToInt(q) + (IF exact THEN 0 ELSE 1)
             ELSE -NatToInt(q)

\* the float a decimal literal num/den (or num * 10^-k) denotes
Dec(num, den) == FDiv(FromInt(num), FromInt(den))

(***************************************************************************)
(* An element of a numpy float64 array: the float as the four integers     *)
(* <<sign, exponent, high, low>>, its significand being high * 2^28 + low. *)
(***************************************************************************)
Pack(f) ==
    <<f.s, f.e, Limb(f.m, 3) + Limb(f.m, 4) * Base, Limb(f.m, 1) + Limb(f.m, 2) * Base>>

Unpack(x) ==
    [s |-> x[1], e |-> x[2],
     m |-> Strip(<<x[4] % Base, x[4] \div Base, x[3] % Base, x[3] \div Base>>)]

(***************************************************************************)
(* setup_parameters: one parameter record per condition.  The int fields   *)
(* (total_time, tetanus_start, tetanus_end) are held as the floats Python  *)
(* converts them to where they meet a float.                               *)
(***************************************************************************)
TotalTime == 100
StepsPerSecond == 10      \* dt = 0.1 = 1 / 10
TetanusStart == 40
TetanusEnd == 45

base_params ==
    [total_time    |-> FromInt(TotalTime),
     dt            |-> Dec(1, StepsPerSecond),
     w_initial     |-> Dec(10, 10),
     tetanus_start |-> FromInt(TetanusStart),
     tetanus_end   |-> FromInt(TetanusEnd)]

WithRates(base, w_max, learning_rate) ==
    [total_time    |-> base.total_time,
     dt            |-> base.dt,
     w_initial     |-> base.w_initial,
     tetanus_start |-> base.tetanus_start,
     tetanus_end   |-> base.tetanus_end,
     w_max         |-> w_max,
     learning_rate |-> learning_rate]

Conditions == <<"Healthy", "AD", "AD + Treatment">>

setup_parameters ==
    [c \in {"Healthy", "AD", "AD + Treatment"} |->
        IF c = "AD" THEN WithRates(base_params, Dec(12, 10), Dec(5, 100))
        ELSE WithRates(base_params, Dec(25, 10), Dec(5, 10))]

(***************************************************************************)
(* numpy.arange(start, stop, step) on floats: ceil((stop - start) / step)  *)
(* samples (none when that is not positive), sample 0 is start, sample 1   *)
(* is start + step, and sample k is start + k * delta with delta the       *)
(* difference of the first two samples.  Sequences are indexed from 1, so  *)
(* sample k of the program is element k + 1.  (A quotient that underflows  *)
(* to zero, which numpy treats apart, needs a step beyond the input sets.) *)
(***************************************************************************)
\* slip: the length taken from the size of the step, its sign dropped
ArangeLengthAbs(start, stop, step) ==
    Max(0, FCeil(FDiv(FSub(stop, start), [step EXCEPT !.s = 0])))

\* slip: the end point counted in
ArangeLengthInclusive(start, stop, step) ==
    Max(0, FCeil(FDiv(FSub(stop, start), step)) + 1)

ArangeLength(start, stop, step) == Max(0, FCeil(FDiv(FSub(stop, start), step)))

Arange(start, stop, step) ==
    LET first == FAdd(start, step)
        delta == FSub(first, start)
    IN  [k \in 1..ArangeLength(start, stop, step) |->
            Pack(IF k = 1 THEN start
                 ELSE IF k = 2 THEN first
                 ELSE FAdd(start, FMul(FromInt(k - 1), delta)))]

\* slips of the window test: the end point taken in, and the two edges swapped
InWindowClosed(p, current_time) ==
    FLe(p.tetanus_start, current_time) /\ FLe(current_time, p.tetanus_end)

InWindowReversed(p, current_time) ==
    FLe(p.tetanus_end, current_time) /\ FLt(current_time, p.tetanus_start)

\* params['tetanus_start'] <= current_time < params['tetanus_end']
InWindow(p, current_time) ==
    FLe(p.tetanus_start, current_time) /\ FLt(current_time, p.tetanus_end)

\* slip: the learning rate left out of the update
DwUnscaled(p, current_weight) == FMul(FSub(p.w_max, current_weight), p.dt)

\* slips of the update rule: the gap taken the wrong way round, and the gap
\* taken as a sum
DwGapReversed(p, current_weight) ==
    FMul(FMul(p.learning_rate, FSub(current_weight, p.w_max)), p.dt)

DwGapAsSum(p, current_weight) ==
    FMul(FMul(p.learning_rate, FAdd(p.w_max, current_weight)), p.dt)

\* dw = learning_rate * (w_max - current_weight) * dt
Dw(p, current_weight) ==
    FMul(FMul(p.learning_rate, FSub(p.w_max, current_weight)), p.dt)

\* the value stored at sample i + 1
NextWeight(p, current_time, current_weight) ==
    IF InWindow(p, current_time)
    THEN FAdd(current_weight, Dw(p, current_weight))
    ELSE current_weight

(***************************************************************************)
(* State.                                                                  *)
(***************************************************************************)
VARIABLES
    all_params,       \* the mapping setup_parameters returned
    results,          \* the traces stored so far, by condition
    todo,             \* the conditions the main loop has still to run
    condition_name,   \* the condition being simulated
    pc,               \* the statement to run next
    time_steps,       \* run_ltp_simulation's time grid
    synaptic_weight,  \* run_ltp_simulation's weight array
    writes,           \* how often each weight sample has been assigned
    i,                \* the loop index of run_ltp_simulation
    error             \* the exception that ended the run, or "none"

vars == <<all_params, results, todo, condition_name, pc, time_steps,
          synaptic_weight, writes, i, error>>

\* the record run_ltp_simulation was handed: the dict itself, not a copy
params == all_params[condition_name]

Init ==
    /\ all_params = setup_parameters
    /\ results = <<>>
    /\ todo = Conditions
    /\ condition_name = "none"
    /\ pc = "main"
    /\ time_steps = <<>>
    /\ synaptic_weight = <<>>
    /\ writes = <<>>
    /\ i = 0
    /\ error = "none"

\* for condition_name, condition_params in all_params.items(): call
MainCall ==
    /\ pc = "main"
    /\ todo # <<>>
    /\ condition_name' = Head(todo)
    /\ todo' = Tail(todo)
    /\ pc' = "arange"
    /\ time_steps' = <<>>
    /\ synaptic_weight' = <<>>
    /\ writes' = <<>>
    /\ i' = 0
    /\ UNCHANGED <<all_params, results, error>>

\* time_steps = np.arange(0, total_time, dt)
ArangeStep ==
    /\ pc = "arange"
    /\ ~FIsZero(params.dt)
    /\ time_steps' = Arange(FromInt(0), params.total_time, params.dt)
    /\ pc' = "zeros"
    /\ UNCHANGED <<all_params, results, todo, condition_name, synaptic_weight,
                   writes, i, error>>

\* slip: a zero step taken for an empty grid
ArangeZeroStepEmptyGrid ==
    /\ pc = "arange"
    /\ FIsZero(params.dt)
    /\ time_steps' = <<>>
    /\ pc' = "zeros"
    /\ UNCHANGED <<all_params, results, todo, condition_name, synaptic_weight,
                   writes, i, error>>

\* np.arange with a zero step: the length's division raises
ArangeZeroStep ==
    /\ pc = "arange"
    /\ FIsZero(params.dt)
    /\ error' = "ZeroDivisionError"
    /\ pc' = "raised"
    /\ UNCHANGED <<all_params, results, todo, condition_name, time_steps,
                   synaptic_weight, writes, i>>

\* synaptic_weight = np.zeros(len(time_steps))
Zeros ==
    /\ pc = "zeros"
    /\ synaptic_weight' = [k \in 1..Len(time_steps) |-> Pack(FZero(0))]
    /\ writes' = [k \in 1..Len(time_steps) |-> 0]
    /\ pc' = "initial"
    /\ UNCHANGED <<all_params, results, todo, condition_name, time_steps, i, error>>

\* synaptic_weight[0] = params['w_initial']
StoreInitial ==
    /\ pc = "initial"
    /\ Len(synaptic_weight) > 0
    /\ synaptic_weight' = [synaptic_weight EXCEPT ![1] = Pack(params.w_initial)]
    /\ writes' = [writes EXCEPT ![1] = @ + 1]
    /\ i' = 0
    /\ pc' = "loop"
    /\ UNCHANGED <<all_params, results, todo, condition_name, time_steps, error>>

\* the same store into an empty array
StoreInitialOutOfBounds ==
    /\ pc = "initial"
    /\ Len(synaptic_weight) = 0
    /\ error' = "IndexError"
    /\ pc' = "raised"
    /\ UNCHANGED <<all_params, results, todo, condition_name, time_steps,
                   synaptic_weight, writes, i>>

\* sample k of the two arrays
TimeAt(k) == Unpack(time_steps[k + 1])
WeightAt(k) == Unpack(synaptic_weight[k + 1])

\* slip: the window tested on the time of the sample about to be written
current_time_of_next == TimeAt(i + 1)

\* current_time = time_steps[i]; current_weight = synaptic_weight[i]
current_time == TimeAt(i)
current_weight == WeightAt(i)

\* slip: the iteration also writes the new weight back into the record it
\* was handed
LoopStepWritesParams ==
    /\ pc = "loop"
    /\ i < Len(time_steps) - 1
    /\ synaptic_weight' =
           [synaptic_weight EXCEPT ![i + 2] =
               Pack(NextWeight(params, current_time, current_weight))]
    /\ all_params' =
           [all_params EXCEPT ![condition_name].w_initial =
               NextWeight(params, current_time, current_weight)]
    /\ writes' = [writes EXCEPT ![i + 2] = @ + 1]
    /\ i' = i + 1
    /\ UNCHANGED <<results, todo, condition_name, pc, time_steps, error>>

\* one iteration of: for i in range(len(time_steps) - 1)
LoopStep ==
    /\ pc = "loop"
    /\ i < Len(time_steps) - 1
    /\ synaptic_weight' =
           [synaptic_weight EXCEPT ![i + 2] =
               Pack(NextWeight(params, current_time, current_weight))]
    /\ writes' = [writes EXCEPT ![i + 2] = @ + 1]
    /\ i' = i + 1
    /\ UNCHANGED <<all_params, results, todo, condition_name, pc, time_steps, error>>

\* the loop is exhausted: return time_steps, synaptic_weight
Return ==
    /\ pc = "loop"
    /\ i >= Len(time_steps) - 1
    /\ pc' = "returned"
    /\ UNCHANGED <<all_params, results, todo, condition_name, time_steps,
                   synaptic_weight, writes, i, error>>

\* results[condition_name] = {'time': time, 'weight': weight}
StoreResult ==
    /\ pc = "returned"
    /\ results' = [c \in DOMAIN results \cup {condition_name} |->
                      IF c = condition_name
                      THEN [time |-> time_steps, weight |-> synaptic_weight]
                      ELSE results[c]]
    /\ pc' = "main"
    /\ UNCHANGED <<all_params, todo, condition_name, time_steps, synaptic_weight,
                   writes, i, error>>

\* plot_comparative_results(results, all_params): reads, changes nothing
Plot ==
    /\ pc = "main"
    /\ todo = <<>>
    /\ pc' = "plotted"
    /\ UNCHANGED <<all_params, results, todo, condition_name, time_steps,
                   synaptic_weight, writes, i, error>>

Next ==
    \/ MainCall
    \/ ArangeStep
    \/ Zeros
    \/ StoreInitial
    \/ LoopStep
    \/ Return
    \/ StoreResult
    \/ Plot

Spec == Init /\ [][Next]_vars

(***************************************************************************)
(* run_ltp_simulation on its own, called with any parameter record of a    *)
(* bounded set: durations and window edges are whole seconds up to         *)
(* MaxTime; the step is negative, zero, a binary fraction or a decimal     *)
(* one; the rates and weights include zero and a weight above w_max.       *)
(***************************************************************************)
MaxTime == 2

StepChoices == {Dec(-1, 2), FromInt(0), Dec(1, 2), Dec(3, 10)}
RateChoices == {FromInt(0), Dec(1, 2)}
MaxWeightChoices == {FromInt(0), Dec(25, 10)}
InitialWeightChoices == {FromInt(1), Dec(-5, 10)}

GenParams ==
    {[total_time    |-> FromInt(T),
      dt            |-> d,
      w_initial     |-> w0,
      tetanus_start |-> FromInt(a),
      tetanus_end   |-> FromInt(b),
      w_max         |-> wm,
      learning_rate |-> lr] :
        T \in 0..MaxTime, d \in StepChoices, w0 \in InitialWeightChoices,
        a \in 0..MaxTime, b \in 0..MaxTime, wm \in MaxWeightChoices,
        lr \in RateChoices}

InitGen ==
    /\ all_params \in [{"Input"} -> GenParams]
    /\ results = <<>>
    /\ todo = <<>>
    /\ condition_name = "Input"
    /\ pc = "arange"
    /\ time_steps = <<>>
    /\ synaptic_weight = <<>>
    /\ writes = <<>>
    /\ i = 0
    /\ error = "none"

NextGen ==
    \/ ArangeStep
    \/ ArangeZeroStep
    \/ Zeros
    \/ StoreInitial
    \/ StoreInitialOutOfBounds
    \/ LoopStep
    \/ Return

SpecGen == InitGen /\ [][NextGen]_vars

(***************************************************************************)
(* The claims.  Those about the shipped conditions are checked under Spec, *)
(* those about any parameter record under SpecGen.  While the loop runs,   *)
(* i is the last sample written, so a property of the pair (i - 1, i) in   *)
(* every loop state covers every pair of the trace.                        *)
(***************************************************************************)
Running == pc \in {"loop", "returned"}
LastSample == Len(time_steps) - 1

\* samples k and k + 1 of the trace under construction, as C1 wants them
MonotoneAt(k) ==
    /\ InWindow(params, TimeAt(k)) => FLe(WeightAt(k), WeightAt(k + 1))
    /\ (FLt(TimeAt(k), params.tetanus_start) /\ FLt(TimeAt(k + 1), params.tetanus_start))
          => FEq(WeightAt(k + 1), WeightAt(k))
    /\ (FLe(params.tetanus_end, TimeAt(k)) /\ FLe(params.tetanus_end, TimeAt(k + 1)))
          => FEq(WeightAt(k + 1), WeightAt(k))

\* C1: for each of the three conditions the weight trace is non-decreasing on
\* the samples of the stimulation window and constant on consecutive samples
\* that both lie before tetanus_start or both at or after tetanus_end: of the
\* returned trace, and of each pair of samples as the loop completes it.
C1_MonotoneInWindowConstantOutside ==
    /\ pc = "returned" => \A k \in 0..(LastSample - 1) : MonotoneAt(k)
    /\ (pc = "loop" /\ i >= 1) => MonotoneAt(i - 1)

\* a returned trace that rose inside the window and stayed flat before and after
C1_Witness ==
    /\ pc = "returned"
    /\ \E k \in 0..(LastSample - 1) :
          InWindow(params, TimeAt(k)) /\ FLt(WeightAt(k), WeightAt(k + 1))
    /\ \E k \in 0..(LastSample - 1) : FLt(TimeAt(k + 1), params.tetanus_start)
    /\ \E k \in 0..(LastSample - 1) : FLe(params.tetanus_end, TimeAt(k))

\* C2: for each of the three conditions the final weight of the returned
\* trace never exceeds that condition's w_max; nor does any sample on the way.
C2_FinalWeightAtMostMax ==
    /\ pc = "returned" => FLe(WeightAt(LastSample), params.w_max)
    /\ (pc = "loop" /\ i >= 1) => FLe(WeightAt(i), params.w_max)

\* a returned trace whose final weight was moved by the stimulation
C2_Witness ==
    /\ pc = "returned"
    /\ FLt(params.w_initial, WeightAt(LastSample))
    /\ FLe(params.tetanus_end, TimeAt(LastSample))

\* C4: for every condition the time array and the weight array have the same
\* length, total_time / dt = 1000 samples, the grid starts at 0 and its last
\* sample is strictly below total_time: from the moment each array exists, and
\* of every stored trace.
C4_TraceLength ==
    /\ pc \in {"zeros", "initial", "loop", "returned"} =>
          /\ Len(time_steps) = TotalTime * StepsPerSecond
          /\ FEq(TimeAt(0), FromInt(0))
          /\ FLt(TimeAt(LastSample), params.total_time)
    /\ pc \in {"initial", "loop", "returned"} =>
          Len(synaptic_weight) = Len(time_steps)
    /\ \A c \in DOMAIN results :
          /\ Len(results[c].time) = TotalTime * StepsPerSecond
          /\ Len(results[c].weight) = Len(results[c].time)

\* a returned pair of arrays, not empty
C4_Witness ==
    /\ pc = "returned"
    /\ Len(time_steps) > 0
    /\ Len(synaptic_weight) > 0

\* the sample at t = 45 s
SampleAtEnd == TetanusEnd * StepsPerSecond

\* C5: the Healthy weight at the sample t = 45 s is strictly above w_initial
\* and strictly below w_max, and its distance to its w_max is smaller than
\* the distance of the AD weight at t = 45 s to the AD w_max.
C5_HealthyCloserThanAD ==
    /\ (condition_name = "Healthy" /\ Running /\ i >= SampleAtEnd) =>
          /\ FEq(TimeAt(SampleAtEnd), FromInt(TetanusEnd))
          /\ FLt(params.w_initial, WeightAt(SampleAtEnd))
          /\ FLt(WeightAt(SampleAtEnd), params.w_max)
    /\ (condition_name = "AD" /\ Running /\ i >= SampleAtEnd
            /\ "Healthy" \in DOMAIN results) =>
          /\ FEq(TimeAt(SampleAtEnd), FromInt(TetanusEnd))
          /\ FLt(FSub(all_params["Healthy"].w_max,
                      Unpack(results["Healthy"].weight[SampleAtEnd + 1])),
                 FSub(params.w_max, WeightAt(SampleAtEnd)))

\* the AD run has just written its sample at t = 45 s, the Healthy trace is stored
C5_Witness ==
    /\ condition_name = "AD"
    /\ pc = "loop"
    /\ i = SampleAtEnd
    /\ "Healthy" \in DOMAIN results

\* the half-open window of the claim, on the time of sample k
ClaimedWindow(k) ==
    FLe(params.tetanus_start, TimeAt(k)) /\ FLt(TimeAt(k), params.tetanus_end)

\* C8 as stated, the product taken as written, learning_rate * dt * (w_max -
\* weight[i]): sample k + 1 is sample k plus that product when sample k lies in
\* the window, and sample k otherwise.
ClaimedStepAt(k) ==
    synaptic_weight[k + 2] =
        Pack(IF ClaimedWindow(k)
             THEN FAdd(WeightAt(k),
                       FMul(FMul(params.learning_rate, params.dt),
                            FSub(params.w_max, WeightAt(k))))
             ELSE WeightAt(k))

C8_ProductAsStated ==
    /\ pc = "returned" => \A k \in 0..(LastSample - 1) : ClaimedStepAt(k)
    /\ (pc = "loop" /\ i >= 1) => ClaimedStepAt(i - 1)

\* the same with the product in the order the floats are multiplied,
\* (learning_rate * (w_max - weight[i])) * dt
StepAt(k) ==
    synaptic_weight[k + 2] =
        Pack(IF ClaimedWindow(k)
             THEN FAdd(WeightAt(k),
                       FMul(FMul(params.learning_rate,
                                 FSub(params.w_max, WeightAt(k))),
                            params.dt))
             ELSE WeightAt(k))

\* C8 (amended): weight[0] = w_initial; for every i from 0 to len - 2,
\* weight[i+1] = weight[i] + (learning_rate * (w_max - weight[i])) * dt, each
\* operation rounded to float64 in that order, when tetanus_start <= time[i] <
\* tetanus_end, and weight[i+1] = weight[i] otherwise; every index of the
\* weight array is written exactly once, in order, and the loop ends after
\* len - 1 iterations.
C8_Recurrence ==
    /\ Running => synaptic_weight[1] = Pack(params.w_initial)
    /\ pc = "returned" =>
          /\ \A k \in 0..(LastSample - 1) : StepAt(k)
          /\ \A k \in 1..Len(writes) : writes[k] = 1
          /\ i = Len(time_steps) - 1
    /\ pc = "loop" =>
          /\ i >= 1 => StepAt(i - 1)
          /\ \A k \in 1..Len(writes) : writes[k] = IF k <= i + 1 THEN 1 ELSE 0

\* a returned trace with steps inside the window and steps outside it
C8_Witness ==
    /\ pc = "returned"
    /\ \E k \in 0..(LastSample - 1) : ClaimedWindow(k)
    /\ \E k \in 0..(LastSample - 1) : ~ClaimedWindow(k)
    /\ i = Len(time_steps) - 1

\* C10: the potentiation lags the window by one sample.  Every sample with
\* time <= tetanus_start, the one at t = 40 s included, still equals
\* w_initial; the first changed sample is the one after tetanus_start;
\* exactly (tetanus_end - tetanus_start) / dt = 50 updates are applied; the
\* last change lands on the sample at t = tetanus_end, itself outside the
\* window; every later sample equals the weight at t = 45 s.
SampleAtStart == TetanusStart * StepsPerSecond

C10_LagByOneSample ==
    /\ pc = "returned" =>
          /\ FEq(TimeAt(SampleAtStart), params.tetanus_start)
          /\ FEq(TimeAt(SampleAtEnd), params.tetanus_end)
          /\ \A k \in 0..LastSample :
                FLe(TimeAt(k), params.tetanus_start)
                   => synaptic_weight[k + 1] = Pack(params.w_initial)
          /\ synaptic_weight[SampleAtStart + 2] # synaptic_weight[SampleAtStart + 1]
          /\ {k \in 0..(LastSample - 1) : synaptic_weight[k + 2] # synaptic_weight[k + 1]}
                = SampleAtStart..(SampleAtEnd - 1)
          /\ Cardinality({k \in 0..(LastSample - 1) : InWindow(params, TimeAt(k))})
                = (TetanusEnd - TetanusStart) * StepsPerSecond
          /\ synaptic_weight[SampleAtEnd + 1] # synaptic_weight[SampleAtEnd]
          /\ ~InWindow(params, TimeAt(SampleAtEnd))
          /\ \A k \in SampleAtEnd..LastSample :
                synaptic_weight[k + 1] = synaptic_weight[SampleAtEnd + 1]
    /\ pc = "loop" =>
          /\ FLe(TimeAt(i), params.tetanus_start)
                => synaptic_weight[i + 1] = Pack(params.w_initial)
          /\ FLt(params.tetanus_end, TimeAt(i))
                => synaptic_weight[i + 1] = synaptic_weight[i]

\* a returned trace that differs from w_initial at its end
C10_Witness ==
    /\ pc = "returned"
    /\ synaptic_weight[SampleAtEnd + 1] # Pack(params.w_initial)
    /\ LastSample > SampleAtEnd

C3_ZeroRateKeepsInitialWeight ==
    FIsZero(params.learning_rate) =>
        /\ pc = "returned" => \A k \in 0..LastSample : FEq(WeightAt(k), params.w_initial)
        /\ pc = "loop" => FEq(WeightAt(i), params.w_initial)

\* a returned trace with learning_rate = 0, a sample inside the window that
\* the loop stepped from, and a w_max that differs from w_initial
C3_Witness ==
    /\ FIsZero(params.learning_rate)
    /\ pc = "returned"
    /\ \E k \in 0..(LastSample - 1) : InWindow(params, TimeAt(k))
    /\ ~FEq(params.w_max, params.w_initial)

ZeroStep == FIsZero(params.dt) /\ FLt(FZero(0), params.total_time)

\* C6 as stated: with dt = 0 and total_time > 0 the call never returns a
\* trace and never reaches an error outcome.
C6_NeverEnds == ZeroStep => pc \notin {"returned", "raised"}

\* C6 (amended): with dt = 0 and total_time > 0 the call ends at once in a
\* failure, the division by zero that np.arange raises while it computes the
\* length of the grid: the call is either about to build the grid or has
\* raised, no array is built, the loop is never entered and no trace is
\* returned.
C6_ZeroStepRaises ==
    ZeroStep =>
        /\ pc \in {"arange", "raised"}
        /\ pc = "raised" =>
              /\ error = "ZeroDivisionError"
              /\ time_steps = <<>>
              /\ synaptic_weight = <<>>
              /\ i = 0

\* the call with a zero step has raised
C6_Witness == ZeroStep /\ pc = "raised"

NegativeStepOrNoDuration ==
    \/ FLt(params.dt, FZero(0)) /\ FLt(FZero(0), params.total_time)
    \/ FIsZero(params.total_time) /\ FLt(FZero(0), params.dt)

\* C7: with a negative step and a positive duration, or with zero duration
\* and a positive step, the time grid is empty and the call ends in a
\* failure, the out-of-bounds store of the initial weight at index 0: the call
\* is building its arrays or has raised, the arrays it builds are empty, the
\* update loop is never entered and no trace is returned.
C7_EmptyGridRaises ==
    NegativeStepOrNoDuration =>
        /\ pc \in {"arange", "zeros", "initial", "raised"}
        /\ pc \in {"zeros", "initial", "raised"} => time_steps = <<>>
        /\ pc \in {"initial", "raised"} => synaptic_weight = <<>>
        /\ pc = "raised" => error = "IndexError" /\ i = 0

\* the store into the empty array has raised, after a negative step
C7_Witness ==
    /\ FLt(params.dt, FZero(0))
    /\ FLt(FZero(0), params.total_time)
    /\ pc = "raised"
    /\ error = "IndexError"

=============================================================================
